---- MODULE Spec2Model ----
(***************************************************************************)
(* Model of the cruster image corrupter (src/src/main.rs).                 *)
(*                                                                         *)
(* The program decodes an image, runs three full-image passes over it      *)
(* (dissolve_block, random_brightening, chromatic_abberations) and saves   *)
(* the buffer.  The random number generator is the only source of          *)
(* nondeterminism; every draw is an input chosen with \E.                  *)
(*                                                                         *)
(* Integer widths: the machine types are u8, u32 and i64.  u8 keeps its    *)
(* width (256).  TLC's integers are 32 bits wide, so u32 is modelled as an *)
(* unsigned integer of U32Bits bits and i64 as a signed integer of twice   *)
(* that many bits; what the code relies on is kept: every u32 fits in the  *)
(* non-negative half of i64, and both wrap at their own width.             *)
(* A float (stride_magnitude) is a number of tenths.                       *)
(***************************************************************************)
EXTENDS Integers, Sequences, FiniteSets, TLC

----------------------------------------------------------------------------
(* Bounds of the model *)

U32Bits == 5

MaxDim == 2

MaxPixels == 4

----------------------------------------------------------------------------
(* Machine integers *)

RECURSIVE Pow2(_)
Pow2(n) == IF n = 0 THEN 1 ELSE 2 * Pow2(n - 1)

U8Mod == 256

U32Mod == Pow2(U32Bits)

U32Max == U32Mod - 1

I64Mod == Pow2(2 * U32Bits)

I64Max == (I64Mod \div 2) - 1

I64Min == 0 - (I64Mod \div 2)

U8 == 0 .. (U8Mod - 1)

U32 == 0 .. U32Max

\* Wrapping<u32> addition and subtraction
WrappingAddU32(a, b) == (a + b) % U32Mod

WrappingSubU32(a, b) == (a - b) % U32Mod

WrappingMulU32(a, b) == (a * b) % U32Mod

\* the two's complement value of an integer at the width of i64
ToI64(v) == ((v - I64Min) % I64Mod) + I64Min

WrappingAddI64(a, b) == ToI64(a + b)

WrappingMulI64(a, b) == ToI64(a * b)

\* Wrapping<u8> arithmetic
WrappingAddU8(a, b) == (a + b) % U8Mod

WrappingSubU8(a, b) == (a - b) % U8Mod

WrappingMulU8(a, b) == (a * b) % U8Mod

WrappingDivU8(a, b) == a \div b

\* `v as i64` of a u32: the value is kept (zero extension)
U32AsI64Sign(v) == IF v >= U32Mod \div 2 THEN v - U32Mod ELSE v

U32AsI64(v) == v

Abs(v) == IF v < 0 THEN 0 - v ELSE v

\* the % of two i64 (b not zero): the remainder has the sign of the dividend
RemI64(a, b) == IF a >= 0 THEN a % Abs(b) ELSE 0 - ((0 - a) % Abs(b))

\* i64 -> u32 by try_into(): fails outside 0 ..= u32::MAX
TryIntoU32Ok(v) == v >= 0 /\ v <= U32Max

\* offset.try_into().unwrap_or(std::u32::MAX)
TryIntoU32OrMaxTruncating(v) == v % U32Mod

TryIntoU32OrMax(v) == IF TryIntoU32Ok(v) THEN v ELSE U32Max

\* `stride as u32` of a float (in tenths): truncation toward zero, saturated
F64AsU32(s) ==
    IF s < 0 THEN 0
    ELSE IF s \div 10 > U32Max THEN U32Max ELSE s \div 10

----------------------------------------------------------------------------
(* Pure functions *)

\* the signed remainder modified_pixel computes before converting it back
modified_pixel_rem(coord, offset_coord, bounds_coord) ==
    RemI64(U32AsI64(WrappingAddU32(coord, offset_coord)), U32AsI64(bounds_coord))

\* modified_pixel: panics on a zero bound (division by zero) and when the
\* remainder does not convert to u32 (unwrap of a failed try_into)
modified_pixel(coord, offset_coord, bounds_coord) ==
    IF bounds_coord = 0
    THEN [panic |-> TRUE, val |-> 0]
    ELSE LET r == modified_pixel_rem(coord, offset_coord, bounds_coord)
         IN  IF TryIntoU32Ok(r)
             THEN [panic |-> FALSE, val |-> r]
             ELSE [panic |-> TRUE, val |-> r]

\* offset::<i64, i64>(rng, magnitude), random being the value drawn
offset_i64(random, magnitude) == WrappingMulI64(random, magnitude)

\* offset::<u32, u32>(rng, magnitude), random being the value drawn
offset_u32(random, magnitude) == WrappingMulU32(random, magnitude)

brighten_pixels_scaled(pixel, brighteness_addition) ==
    WrappingAddU8(
        WrappingSubU8(pixel,
            WrappingMulU8(pixel, WrappingDivU8(brighteness_addition, 255))),
        brighteness_addition)

\* Wrapping(pixel) - Wrapping(pixel) * Wrapping(add) / Wrapping(255) + Wrapping(add)
brighten_pixels(pixel, brighteness_addition) ==
    WrappingAddU8(
        WrappingSubU8(pixel,
            WrappingDivU8(WrappingMulU8(pixel, brighteness_addition), 255)),
        brighteness_addition)

----------------------------------------------------------------------------
(* Inputs: configurations, images, random draws *)

\* all parameters zero
ZeroCfg ==
    [magnitude |-> 0, block_height |-> 0, block_offset |-> 0,
     stride_magnitude |-> 0, lr |-> 0, lg |-> 0, lb |-> 0, std_offset |-> 0,
     brighteness_addition |-> 0, mean_abberation |-> 0, std_abberation |-> 0]

\* the default_value of every parameter of CLI (stride_magnitude 0.1 in tenths)
DefaultCfg ==
    [magnitude |-> 7, block_height |-> 15, block_offset |-> 30,
     stride_magnitude |-> 1, lr |-> 12, lg |-> 17, lb |-> 18, std_offset |-> 10,
     brighteness_addition |-> 3, mean_abberation |-> 10, std_abberation |-> 1]

Magnitudes == {0, 7}

BlockHeights == {0, 1, 15}

BlockOffsets == {0, 30}

\* -0.5, 0.0, 0.1 and 2.0
StrideMagnitudes == {0 - 5, 0, 1, 20}

\* configurations that vary the parameters of one stage at a time; those of
\* stage 1 vary the block parameters without jitter, and the jitter with the
\* block parameters zero or all set
Stage1Cfgs ==
    {[ZeroCfg EXCEPT !.block_height = h, !.block_offset = o,
                     !.stride_magnitude = s] :
        h \in BlockHeights, o \in BlockOffsets, s \in StrideMagnitudes}
    \cup {[ZeroCfg EXCEPT !.magnitude = m] : m \in Magnitudes}
    \cup {[ZeroCfg EXCEPT !.magnitude = m, !.block_height = 1,
                          !.block_offset = 30, !.stride_magnitude = 20] :
            m \in Magnitudes}

Stage2Cfgs ==
    {[ZeroCfg EXCEPT !.lr = r, !.lg = g, !.lb = b, !.std_offset = o,
                     !.brighteness_addition = a] :
        r \in {0, 12}, g \in {0, 17}, b \in {0, 18}, o \in {0, 10},
        a \in {0, 3}}

Stage3Cfgs ==
    {[ZeroCfg EXCEPT !.mean_abberation = m, !.std_abberation = s,
                     !.brighteness_addition = a] :
        m \in {0, 10}, s \in {0, 1}, a \in {0, 3, 255}}

Configs == {DefaultCfg} \cup Stage1Cfgs \cup Stage2Cfgs \cup Stage3Cfgs

\* values the generator may return for an i64 and for a u32
RandI64 == {0 - 1, 0, I64Max}

RandU32 == {0, 1, U32Max}

\* width and height of the decoded image
Dims ==
    {d \in (0 .. MaxDim) \X (0 .. MaxDim) : d[1] * d[2] <= MaxPixels}

Coords(w, h) == (0 .. (w - 1)) \X (0 .. (h - 1))

ImageKinds == {"gradient", "solid_red"}

\* the RGBA pixel of a source image at (px, py); a gradient image has all
\* pixels and all channels of a pixel distinct
SourcePixel(kind, px, py) ==
    IF kind = "solid_red"
    THEN <<255, 0, 0, 255>>
    ELSE LET i == px * (MaxDim + 2) + py
         IN  <<255 - i, 10 + i, 100 + i, 200 + i>>

SourceImage(kind, w, h) ==
    [p \in Coords(w, h) |-> SourcePixel(kind, p[1], p[2])]

\* rng.gen_ratio(numerator, denominator): panics when denominator is zero or
\* numerator > denominator, always true when they are equal, never when the
\* numerator is zero
gen_ratio(numerator, denominator) ==
    IF denominator = 0 \/ numerator > denominator THEN {"panic"}
    ELSE IF numerator = denominator THEN {"true"}
    ELSE IF numerator = 0 THEN {"false"}
    ELSE {"true", "false"}

----------------------------------------------------------------------------
(* State *)

VARIABLES
    pc,               \* where main is
    panicked,         \* "none", or what made the process panic
    cfg,              \* the CLI record
    overflow_checks,  \* the build panics on overflow of a plain + or *
    bounds,           \* Corrupter.bounds
    img,              \* Corrupter.img
    buffer,           \* Corrupter.buffer
    x, y,             \* the next element of iproduct!(x_min..x_max, y_min..y_max)
    line_offset, stride, yset,   \* locals of dissolve_block
    offset_x,         \* the offset_x local of chromatic_abberations
    chroma_draws,     \* number of offset() calls made by chromatic_abberations
    visited,          \* coordinates the running stage has written, in order
    last,             \* what the last loop iteration computed
    output,           \* what write() saved
    call              \* a call of a pure function and its result

vars ==
    <<pc, panicked, cfg, overflow_checks, bounds, img, buffer, x, y,
      line_offset, stride, yset, offset_x, chroma_draws, visited, last,
      output, call>>

NoLast == [stage |-> 0]

NoCall ==
    [fn |-> "none", a |-> 0, b |-> 0, c |-> 0, done |-> FALSE,
     panic |-> FALSE, val |-> 0, rem |-> 0]

NoOutput == [saved |-> FALSE]

\* ImageBuffer::new(width, height): every channel zero
NewBuffer(w, h) == [p \in Coords(w, h) |-> <<0, 0, 0, 0>>]

\* iproduct!(x_min..x_max, y_min..y_max) has no further element
LoopDone == x >= bounds.x_max \/ bounds.y_max = 0

\* the element after (cx, cy): y is the inner loop
NextCoord(cx, cy) ==
    IF cy + 1 < bounds.y_max THEN <<cx, cy + 1>> ELSE <<cx + 1, 0>>

\* all coordinates in the order the loops produce them
RECURSIVE RasterFrom(_, _, _, _)
RasterFrom(cx, cy, w, h) ==
    IF cx >= w \/ h = 0 THEN << >>
    ELSE <<(<<cx, cy>>)>> \o
         (IF cy + 1 < h THEN RasterFrom(cx, cy + 1, w, h)
                        ELSE RasterFrom(cx + 1, 0, w, h))

RasterOrder == RasterFrom(0, 0, bounds.x_max, bounds.y_max)

\* the state after Corrupter::new and thread_rng(), for every input
Init ==
    /\ pc = "dissolve_block"
    /\ panicked = "none"
    /\ cfg \in Configs
    /\ overflow_checks \in BOOLEAN
    /\ \E d \in Dims, kind \in ImageKinds :
          /\ bounds = [x_min |-> 0, y_min |-> 0, x_max |-> d[1], y_max |-> d[2]]
          /\ img = SourceImage(kind, d[1], d[2])
          /\ buffer = NewBuffer(d[1], d[2])
    /\ x = 0
    /\ y = 0
    /\ line_offset = 0
    /\ stride = 0
    /\ yset = 0
    /\ offset_x = 0
    /\ chroma_draws = 0
    /\ visited = << >>
    /\ last = NoLast
    /\ output = NoOutput
    /\ call = NoCall

\* a panic unwinds main: nothing runs after it
Panic(why, rec) ==
    /\ pc' = "panic"
    /\ panicked' = why
    /\ last' = rec
    /\ UNCHANGED <<cfg, overflow_checks, bounds, img, buffer, x, y,
                   line_offset, stride, yset, offset_x, chroma_draws,
                   visited, output, call>>

\* self.img.get_pixel(sx, sy)
img_get_pixel_from_buffer(image, buf, sx, sy) == buf[<<sx, sy>>]

img_get_pixel(image, buf, sx, sy) == image[<<sx, sy>>]

----------------------------------------------------------------------------
(* Stage 1: dissolve_block *)

\* let mut line_offset = 0; let mut stride = 0.; let mut yset = 0;
DissolveBlockEnter ==
    /\ pc = "dissolve_block"
    /\ pc' = "dissolve_block_loop"
    /\ line_offset' = 0
    /\ stride' = 0
    /\ yset' = 0
    /\ x' = 0
    /\ y' = 0
    /\ visited' = << >>
    /\ last' = NoLast
    /\ UNCHANGED <<panicked, cfg, overflow_checks, bounds, img, buffer,
                   offset_x, chroma_draws, output, call>>

\* the three locals after the Bernoulli trial of one pixel
block_state_reset_on_column(trial, drawn, cy, cur) ==
    IF trial = "true"
    THEN [line_offset |-> drawn, stride |-> cfg.stride_magnitude, yset |-> cy]
    ELSE IF cy = 0 THEN [line_offset |-> 0, stride |-> 0, yset |-> 0] ELSE cur

block_state(trial, drawn, cy, cur) ==
    IF trial = "true"
    THEN [line_offset |-> drawn, stride |-> cfg.stride_magnitude, yset |-> cy]
    ELSE cur

\* the body of the loop of dissolve_block for the pixel (x, y)
DissolveBlockPixel ==
    /\ pc = "dissolve_block_loop"
    /\ ~LoopDone
    /\ \E trial \in gen_ratio(cfg.block_height, bounds.x_max) :
       \E r_line \in (IF trial = "true" THEN RandI64 ELSE {0}),
          r_x \in RandI64, r_y \in RandI64 :
        LET pre == [line_offset |-> line_offset, stride |-> stride, yset |-> yset]
            here == [stage |-> 1, x |-> x, y |-> y, trial |-> trial, pre |-> pre]
        IN
        IF trial = "panic"
        THEN Panic("gen_ratio", here)
        ELSE
        LET drawn == offset_i64(r_line, U32AsI64(cfg.block_offset))
            bs == block_state(trial, drawn, y, pre)
            diff == WrappingSubU32(y, bs.yset)
            product == F64AsU32(bs.stride) * diff
        IN
        IF overflow_checks /\ product > U32Max
        THEN /\ pc' = "panic"
             /\ panicked' = "mul_overflow"
             /\ line_offset' = bs.line_offset
             /\ stride' = bs.stride
             /\ yset' = bs.yset
             /\ last' = here @@ [drawn |-> drawn]
             /\ UNCHANGED <<cfg, overflow_checks, bounds, img, buffer, x, y,
                            offset_x, chroma_draws, visited, output, call>>
        ELSE
        LET stride_offset == U32AsI64(product % U32Mod)
            ox == WrappingAddI64(
                      WrappingAddI64(offset_i64(r_x, cfg.magnitude), bs.line_offset),
                      stride_offset)
            oy == offset_i64(r_y, cfg.magnitude)
            dx == TryIntoU32OrMax(ox)
            dy == TryIntoU32OrMax(oy)
            sx == modified_pixel(x, dx, bounds.x_max)
            sy == modified_pixel(y, dy, bounds.y_max)
            rec == here @@ [drawn |-> drawn, stride_offset |-> stride_offset,
                            offset_x |-> ox, offset_y |-> oy, dx |-> dx, dy |-> dy,
                            sx |-> sx.val, sy |-> sy.val]
        IN
        IF sx.panic \/ sy.panic
        THEN Panic("modified_pixel", rec)
        ELSE /\ buffer' = [buffer EXCEPT
                              ![<<x, y>>] = img_get_pixel(img, buffer, sx.val, sy.val)]
             /\ line_offset' = bs.line_offset
             /\ stride' = bs.stride
             /\ yset' = bs.yset
             /\ x' = NextCoord(x, y)[1]
             /\ y' = NextCoord(x, y)[2]
             /\ visited' = Append(visited, <<x, y>>)
             /\ last' = rec
             /\ UNCHANGED <<pc, panicked, cfg, overflow_checks, bounds, img,
                            offset_x, chroma_draws, output, call>>

\* the loop is exhausted: dissolve_block returns and random_brightening starts
DissolveBlockReturn ==
    /\ pc = "dissolve_block_loop"
    /\ LoopDone
    /\ pc' = "random_brightening_loop"
    /\ line_offset' = 0
    /\ stride' = 0
    /\ yset' = 0
    /\ x' = 0
    /\ y' = 0
    /\ visited' = << >>
    /\ last' = NoLast
    /\ UNCHANGED <<panicked, cfg, overflow_checks, bounds, img, buffer,
                   offset_x, chroma_draws, output, call>>

----------------------------------------------------------------------------
(* Stage 2: random_brightening *)

\* a plain + of two u32: an overflow panics in a build with overflow checks
\* and wraps in a build without
AddU32(a, b) ==
    IF a + b > U32Max
    THEN [overflow |-> TRUE, val |-> (a + b) % U32Mod]
    ELSE [overflow |-> FALSE, val |-> a + b]

\* the pixel random_brightening writes at (px, py): `let (b, g)` binds b to
\* data[1] of the pixel lagged by lg and g to data[2] of the one lagged by lb
random_brightening_pixel(image, buf, px, py, lr, lg, xlb, ox) ==
    LET row == modified_pixel(0, py, bounds.y_max).val
        ra == img_get_pixel(image, buf,
                  modified_pixel(WrappingSubU32(px, lr), ox, bounds.x_max).val, row)
        b == img_get_pixel(image, buf,
                  modified_pixel(px, lg, bounds.x_max).val, row)[2]
        g == img_get_pixel(image, buf,
                  modified_pixel(xlb, ox, bounds.x_max).val, row)[3]
    IN  <<brighten_pixels(ra[1], cfg.brighteness_addition),
          brighten_pixels(g, cfg.brighteness_addition),
          brighten_pixels(b, cfg.brighteness_addition),
          brighten_pixels(ra[4], cfg.brighteness_addition)>>

\* the body of the loop of random_brightening for the pixel (x, y)
RandomBrighteningPixel ==
    /\ pc = "random_brightening_loop"
    /\ ~LoopDone
    /\ \E r_lr \in RandU32, r_lg \in RandU32, r_lb \in RandU32, r_x \in RandU32 :
        LET lr == AddU32(cfg.lr, offset_u32(r_lr, cfg.lr))
            lg == AddU32(cfg.lg, offset_u32(r_lg, cfg.lg))
            lb == AddU32(cfg.lb, offset_u32(r_lb, cfg.lb))
            ox == offset_u32(r_x, cfg.std_offset)
            xlb == AddU32(x, lb.val)
            here == [stage |-> 2, x |-> x, y |-> y]
        IN
        IF overflow_checks /\
           (lr.overflow \/ lg.overflow \/ lb.overflow \/ xlb.overflow)
        THEN Panic("add_overflow", here)
        ELSE IF \/ modified_pixel(WrappingSubU32(x, lr.val), ox, bounds.x_max).panic
                \/ modified_pixel(x, lg.val, bounds.x_max).panic
                \/ modified_pixel(xlb.val, ox, bounds.x_max).panic
                \/ modified_pixel(0, y, bounds.y_max).panic
        THEN Panic("modified_pixel", here)
        ELSE /\ buffer' = [buffer EXCEPT ![<<x, y>>] =
                    random_brightening_pixel(img, buffer, x, y,
                                             lr.val, lg.val, xlb.val, ox)]
             /\ x' = NextCoord(x, y)[1]
             /\ y' = NextCoord(x, y)[2]
             /\ visited' = Append(visited, <<x, y>>)
             /\ last' = here
             /\ UNCHANGED <<pc, panicked, cfg, overflow_checks, bounds, img,
                            line_offset, stride, yset, offset_x, chroma_draws,
                            output, call>>

\* the loop is exhausted: random_brightening returns
RandomBrighteningReturn ==
    /\ pc = "random_brightening_loop"
    /\ LoopDone
    /\ pc' = "chromatic_abberations"
    /\ x' = 0
    /\ y' = 0
    /\ visited' = << >>
    /\ last' = NoLast
    /\ UNCHANGED <<panicked, cfg, overflow_checks, bounds, img, buffer,
                   line_offset, stride, yset, offset_x, chroma_draws, output,
                   call>>

----------------------------------------------------------------------------
(* Stage 3: chromatic_abberations *)

\* let offset_x = (Wrapping(mean_abberation) + Wrapping(offset(rng, std_abberation))).0
ChromaticAbberationsEnter ==
    /\ pc = "chromatic_abberations"
    /\ \E random \in RandU32 :
          offset_x' = WrappingAddU32(cfg.mean_abberation,
                                     offset_u32(random, cfg.std_abberation))
    /\ chroma_draws' = chroma_draws + 1
    /\ pc' = "chromatic_abberations_loop"
    /\ UNCHANGED <<panicked, cfg, overflow_checks, bounds, img, buffer, x, y,
                   line_offset, stride, yset, visited, last, output, call>>

\* the pixel chromatic_abberations writes at (px, py): `let (b, g)` binds b to
\* data[1] of the unshifted pixel and g to data[2] of the shifted one
chromatic_abberations_pixel(image, buf, px, py, ox) ==
    LET row == modified_pixel(0, py, bounds.y_max).val
        shifted == modified_pixel(px, ox, bounds.x_max).val
        ra == img_get_pixel(image, buf, shifted, row)
        b == img_get_pixel(image, buf,
                           modified_pixel(0, px, bounds.x_max).val, row)[2]
        g == img_get_pixel(image, buf, shifted, row)[3]
    IN  <<brighten_pixels(ra[1], cfg.brighteness_addition),
          brighten_pixels(g, cfg.brighteness_addition),
          brighten_pixels(b, cfg.brighteness_addition),
          brighten_pixels(ra[4], cfg.brighteness_addition)>>

\* the body of the loop of chromatic_abberations for the pixel (x, y)
ChromaticAbberationsPixel ==
    /\ pc = "chromatic_abberations_loop"
    /\ ~LoopDone
    /\ LET here == [stage |-> 3, x |-> x, y |-> y]
       IN
       IF \/ modified_pixel(x, offset_x, bounds.x_max).panic
          \/ modified_pixel(0, x, bounds.x_max).panic
          \/ modified_pixel(0, y, bounds.y_max).panic
       THEN Panic("modified_pixel", here)
       ELSE /\ buffer' = [buffer EXCEPT ![<<x, y>>] =
                   chromatic_abberations_pixel(img, buffer, x, y, offset_x)]
            /\ x' = NextCoord(x, y)[1]
            /\ y' = NextCoord(x, y)[2]
            /\ visited' = Append(visited, <<x, y>>)
            /\ last' = here
            /\ UNCHANGED <<pc, panicked, cfg, overflow_checks, bounds, img,
                           line_offset, stride, yset, offset_x, chroma_draws,
                           output, call>>

\* the loop is exhausted: chromatic_abberations returns and main calls write
ChromaticAbberationsReturn ==
    /\ pc = "chromatic_abberations_loop"
    /\ LoopDone
    /\ pc' = "write"
    /\ UNCHANGED <<panicked, cfg, overflow_checks, bounds, img, buffer, x, y,
                   line_offset, stride, yset, offset_x, chroma_draws, visited,
                   last, output, call>>

\* self.buffer.save(path): the encoder writes the buffer or reports an error
WriteOk ==
    /\ pc = "write"
    /\ pc' = "done"
    /\ output' = [saved |-> TRUE, image |-> buffer]
    /\ UNCHANGED <<panicked, cfg, overflow_checks, bounds, img, buffer, x, y,
                   line_offset, stride, yset, offset_x, chroma_draws, visited,
                   last, call>>

WriteErr ==
    /\ pc = "write"
    /\ pc' = "io_error"
    /\ UNCHANGED <<panicked, cfg, overflow_checks, bounds, img, buffer, x, y,
                   line_offset, stride, yset, offset_x, chroma_draws, visited,
                   last, output, call>>

Next ==
    \/ DissolveBlockEnter
    \/ DissolveBlockPixel
    \/ DissolveBlockReturn
    \/ RandomBrighteningPixel
    \/ RandomBrighteningReturn
    \/ ChromaticAbberationsEnter
    \/ ChromaticAbberationsPixel
    \/ ChromaticAbberationsReturn
    \/ WriteOk
    \/ WriteErr

Spec == Init /\ [][Next]_vars

----------------------------------------------------------------------------
(* The pure functions on their own: one call per behaviour *)

\* the calls: modified_pixel on every coord, offset and bound of the u32 range
\* (a zero bound included), brighten_pixels on every pair of u8
ModifiedPixelCall(coord, off, bound) ==
    [NoCall EXCEPT !.fn = "modified_pixel", !.a = coord, !.b = off, !.c = bound]

BrightenPixelsCall(pixel, add) ==
    [NoCall EXCEPT !.fn = "brighten_pixels", !.a = pixel, !.b = add]

InitPure ==
    /\ pc = "pure"
    /\ panicked = "none"
    /\ cfg = ZeroCfg
    /\ overflow_checks = FALSE
    /\ bounds = [x_min |-> 0, y_min |-> 0, x_max |-> 0, y_max |-> 0]
    /\ img = SourceImage("gradient", 0, 0)
    /\ buffer = NewBuffer(0, 0)
    /\ x = 0
    /\ y = 0
    /\ line_offset = 0
    /\ stride = 0
    /\ yset = 0
    /\ offset_x = 0
    /\ chroma_draws = 0
    /\ visited = << >>
    /\ last = NoLast
    /\ output = NoOutput
    /\ \/ \E coord \in U32, off \in U32, bound \in U32 :
             call = ModifiedPixelCall(coord, off, bound)
       \/ \E pixel \in U8, add \in U8 :
             call = BrightenPixelsCall(pixel, add)

PureUnchanged ==
    UNCHANGED <<pc, panicked, cfg, overflow_checks, bounds, img, buffer, x, y,
                line_offset, stride, yset, offset_x, chroma_draws, visited,
                last, output>>

CallModifiedPixel ==
    /\ call.fn = "modified_pixel"
    /\ ~call.done
    /\ LET res == modified_pixel(call.a, call.b, call.c)
       IN  call' = [call EXCEPT !.done = TRUE, !.panic = res.panic,
                                !.val = res.val,
                                !.rem = IF call.c = 0 THEN 0
                                        ELSE modified_pixel_rem(call.a, call.b, call.c)]
    /\ PureUnchanged

CallBrightenPixels ==
    /\ call.fn = "brighten_pixels"
    /\ ~call.done
    /\ call' = [call EXCEPT !.done = TRUE,
                            !.val = brighten_pixels(call.a, call.b)]
    /\ PureUnchanged

NextPure == CallModifiedPixel \/ CallBrightenPixels

SpecPure == InitPure /\ [][NextPure]_vars

----------------------------------------------------------------------------
(* Properties *)

Range(seq) == {seq[i] : i \in 1 .. Len(seq)}

Ended == pc \in {"panic", "done", "io_error"}

\* C1: for every coord and offset of the u32 range and every bound > 0,
\* modified_pixel returns r with 0 <= r < bound; the signed remainder is never
\* negative, so its conversion back to u32 never fails.
C1_ModifiedPixelInBounds ==
    (call.fn = "modified_pixel" /\ call.done /\ call.c > 0) =>
        /\ ~call.panic
        /\ call.rem >= 0
        /\ call.val >= 0
        /\ call.val < call.c

\* a call whose sum coord + offset wrapped at the width of u32
C1_Witness ==
    /\ call.fn = "modified_pixel"
    /\ call.done
    /\ call.c > 1
    /\ call.a + call.b > U32Max
    /\ call.val > 0

\* C7: for every channel value v and addition a,
\* brighten_pixels(v, a) = ((v - (((v * a) mod 256) div 255)) + a) mod 256,
\* and brighten_pixels(v, 0) = v.
C7_BrightenFormula ==
    (call.fn = "brighten_pixels" /\ call.done) =>
        /\ call.val = ((call.a - (((call.a * call.b) % 256) \div 255)) + call.b) % 256
        /\ (call.b = 0 => call.val = call.a)

\* a call where the quotient is 1 and the final addition wraps
C7_Witness ==
    /\ call.fn = "brighten_pixels"
    /\ call.done
    /\ (call.a * call.b) % 256 = 255
    /\ call.a - 1 + call.b > 255
    /\ call.val = call.a - 1 + call.b - 256

\* the parameters the identity property sets to zero (block_height is free)
ZeroParams ==
    /\ cfg.magnitude = 0
    /\ cfg.block_offset = 0
    /\ cfg.stride_magnitude = 0
    /\ cfg.lr = 0
    /\ cfg.lg = 0
    /\ cfg.lb = 0
    /\ cfg.std_offset = 0
    /\ cfg.mean_abberation = 0
    /\ cfg.std_abberation = 0
    /\ cfg.brighteness_addition = 0

InLoop ==
    pc \in {"dissolve_block_loop", "random_brightening_loop",
            "chromatic_abberations_loop"}

\* C2: with all displacement parameters and the brightness addition zero,
\* every pixel a stage has written equals the source pixel at the same
\* coordinate, channel for channel.
C2_IdentityAtZero ==
    (ZeroParams /\ InLoop) =>
        \A p \in Range(visited) : buffer[p] = img[p]

\* C3: once both bounds are positive, no configuration and no sequence of
\* draws makes a stage panic.
C3_NoPanic ==
    (bounds.x_max > 0 /\ bounds.y_max > 0) => pc # "panic"

\* C4: with a zero width or a zero height the run ends in a fatal error
\* before write() is called: write() is never reached and nothing is saved.
C4_FailFastOnZeroDimension ==
    (bounds.x_max = 0 \/ bounds.y_max = 0) =>
        /\ pc \notin {"write", "done", "io_error"}
        /\ ~output.saved

\* the pixel chromatic_abberations alone produces at p from the source image
\* with the stage's offset_x
ChromaOfSource(p) ==
    LET sh == ((p[1] + offset_x) % U32Mod) % bounds.x_max
        add == cfg.brighteness_addition
    IN  <<brighten_pixels(img[<<sh, p[2]>>][1], add),
          brighten_pixels(img[<<sh, p[2]>>][3], add),
          brighten_pixels(img[p][2], add),
          brighten_pixels(img[<<sh, p[2]>>][4], add)>>

\* C5: every stage writes every coordinate, and the buffer handed to write()
\* is what chromatic_abberations alone produces from the source image with
\* the offset_x it drew, whatever stages 1 and 2 wrote.
C5_FinalBufferIsStage3OfSource ==
    /\ (InLoop /\ LoopDone) => visited = RasterOrder
    /\ (pc \in {"write", "done", "io_error"}) =>
           buffer = [p \in Coords(bounds.x_max, bounds.y_max) |-> ChromaOfSource(p)]
    /\ pc = "done" => (output.saved /\ output.image = buffer)

\* write() is reached for a 2 x 2 gradient image that stage 1 jittered and
\* stage 3 shifts by an odd offset
C5_Witness ==
    /\ pc = "write"
    /\ bounds.x_max = 2
    /\ bounds.y_max = 2
    /\ cfg.magnitude # 0
    /\ img[<<0, 0>>] # img[<<1, 0>>]
    /\ buffer[<<0, 0>>] # img[<<0, 0>>]

\* C6: for every image of width >= 1 and height >= 1 the run completes all
\* three stages, and the buffer has the width and height of the source.
C6_RunCompletesWithSourceDims ==
    (bounds.x_max >= 1 /\ bounds.y_max >= 1) =>
        /\ DOMAIN buffer = DOMAIN img
        /\ DOMAIN buffer = Coords(bounds.x_max, bounds.y_max)
        /\ Ended => panicked = "none"

\* stage 1 wrote the pixel of its last iteration
Stage1Wrote == pc = "dissolve_block_loop" /\ last.stage = 1

\* C8: in stage 1 an offset_x or offset_y that is negative or above u32::MAX
\* is passed to modified_pixel as u32::MAX, with no error; the source
\* coordinate is modified_pixel(coord, u32::MAX, bound), inside the image, and
\* the pixel at (x, y) is written from it.
C8_SaturatingDisplacement ==
    /\ panicked # "modified_pixel"
    /\ Stage1Wrote =>
        /\ (last.offset_x < 0 \/ last.offset_x > U32Max) =>
              /\ last.dx = U32Max
              /\ last.sx = ((last.x + U32Max) % U32Mod) % bounds.x_max
        /\ (last.offset_y < 0 \/ last.offset_y > U32Max) =>
              /\ last.dy = U32Max
              /\ last.sy = ((last.y + U32Max) % U32Mod) % bounds.y_max
        /\ last.sx < bounds.x_max
        /\ last.sy < bounds.y_max
        /\ visited[Len(visited)] = <<last.x, last.y>>
        /\ buffer[<<last.x, last.y>>] = img[<<last.sx, last.sy>>]

\* a pixel written with a negative offset_x and an offset_y above u32::MAX
C8_Witness ==
    /\ Stage1Wrote
    /\ last.offset_x < 0
    /\ last.offset_y > U32Max
    /\ last.dx = U32Max
    /\ bounds.x_max = 2

\* C9: stage 3 draws once, before any pixel; the pixel written at (x, y) has
\* red and alpha from the brightened source pixel at the shifted column, green
\* from the brightened green of the source at (x, y), and blue from the
\* brightened blue of the source at the shifted column.
C9_ChannelSources ==
    /\ (pc \in {"chromatic_abberations_loop", "write", "done", "io_error"}) =>
           chroma_draws = 1
    /\ pc = "chromatic_abberations_loop" =>
        \A p \in Range(visited) :
            LET sh == modified_pixel(p[1], offset_x, bounds.x_max).val
                add == cfg.brighteness_addition
            IN  buffer[p] = <<brighten_pixels(img[<<sh, p[2]>>][1], add),
                              brighten_pixels(img[p][2], add),
                              brighten_pixels(img[<<sh, p[2]>>][3], add),
                              brighten_pixels(img[<<sh, p[2]>>][4], add)>>

\* floor of a float given in tenths
Floor(s) == s \div 10

\* the scan order and the three locals of stage 1 after one more pixel
Stage1ScanAndLocals ==
    /\ (pc = "dissolve_block_loop" /\ visited = << >>) =>
           (line_offset = 0 /\ stride = 0 /\ yset = 0)
    /\ (pc = "dissolve_block_loop") =>
           visited = SubSeq(RasterOrder, 1, Len(visited))
    /\ ((Stage1Wrote \/ panicked = "mul_overflow") /\ last.trial = "true") =>
           /\ line_offset = last.drawn
           /\ stride = cfg.stride_magnitude
           /\ yset = last.y
    /\ ((Stage1Wrote \/ panicked = "mul_overflow") /\ last.trial = "false") =>
           /\ line_offset = last.pre.line_offset
           /\ stride = last.pre.stride
           /\ yset = last.pre.yset

\* C10 as stated: raster order, the locals follow the most recent successful
\* trial, and stride_offset = floor(stride) * ((y - yset) mod 2^32).
C10_StrideOffsetIsFloorProduct ==
    /\ Stage1ScanAndLocals
    /\ Stage1Wrote =>
           last.stride_offset = Floor(stride) * WrappingSubU32(last.y, yset)
    /\ panicked # "mul_overflow"

\* C10 amended: raster order, the locals follow the most recent successful
\* trial, and stride_offset is the u32 product of `stride as u32` (truncated
\* toward zero and saturated, 0 for a negative stride) and (y - yset) mod 2^32:
\* a product above u32::MAX panics in a build with overflow checks and is
\* reduced mod 2^32 in a build without.
C10_StrideOffsetIsU32Product ==
    /\ Stage1ScanAndLocals
    /\ Stage1Wrote =>
           /\ last.stride_offset =
                  (F64AsU32(stride) * WrappingSubU32(last.y, yset)) % U32Mod
           /\ (overflow_checks =>
                  F64AsU32(stride) * WrappingSubU32(last.y, yset) <= U32Max)
    /\ panicked = "mul_overflow" =>
           /\ overflow_checks
           /\ F64AsU32(stride) * WrappingSubU32(last.y, yset) > U32Max

\* the scan entered the second column with no new block: yset is beyond y, the
\* difference wrapped and the product was reduced mod 2^32
C10_Witness ==
    /\ Stage1Wrote
    /\ last.trial = "false"
    /\ last.y < yset
    /\ F64AsU32(stride) >= 2
    /\ last.pre.line_offset # 0
    /\ last.stride_offset # F64AsU32(stride) * WrappingSubU32(last.y, yset)

====
